---- MODULE Spec2Model ----
(***************************************************************************)
(* Model of the ingestion-to-retrieval pipeline of rfp-ai-agent:           *)
(*   - lib/db.ts        the Batch Writer (chunkedUpsert / tryUpsert)       *)
(*   - lib/chunker.ts   makeChunks                                         *)
(*   - app/api/chat     the hybrid retrieve route (POST)                   *)
(*   - app/api/generate-report   matchFromKB                               *)
(*   - embedBatch with lib/kb.ts readBatch, and the save functions of      *)
(*     lib/db.ts                                                           *)
(* Every remote call (store, embedding, completion) is an await point: an  *)
(* action is the code that runs from one await point to the next.          *)
(***************************************************************************)
EXTENDS Integers, Sequences, FiniteSets, TLC

VARIABLES
  \* ---- Batch Writer (lib/db.ts) ----
  variant,      \* "halving": lib/db.ts with tryUpsert; "plain": the variant without retry
  table,        \* table argument of chunkedUpsert
  onConflict,   \* conflict key argument
  rows,         \* rows argument: sequence of [key, val]
  chunkSize,    \* chunkSize argument
  i,            \* loop index of chunkedUpsert
  stack,        \* call stack of tryUpsert frames [rows, attempt, pc, ms]
  requests,     \* store upsert requests of the current call, in issue order
  status,       \* "idle" | "running" | "done" | "failed"
  callError,    \* message of the error the call failed with (sequence of words)
  store,        \* the table: sequence of stored records [key, val]
  run,          \* number of the current Batch Writer call (1 or 2)
  storeAfterFirst,  \* the table as the first successful call left it
  \* ---- Chunker (lib/chunker.ts) ----
  text,         \* text argument of makeChunks: sequence of characters
  size,         \* size argument
  overlap,      \* overlap argument
  t,            \* const t = clean(text)
  start,        \* let start
  ord,          \* let ord
  out,          \* const out: sequence of [ord, content, token_count]
  cpc,          \* "idle" | "loop" | "returned"
  \* ---- chat retrieve route (app/api/chat/route.ts, POST) ----
  chat          \* the request's locals: pc (the awaited call), calls, semCands,
                \* qRows, aRows, lexCands, candIds, items, results, qaRows,
                \* contextual, ctxChunks, chunkSource, aiDerived, response
  ,
  \* ---- report route (app/api/generate-report/route.ts, matchFromKB) ----
  kbMatch,      \* one call of matchFromKB: pc, q, calls, sem, rows, candidates,
                \* checks (the judge's replies), hybrid, result
  \* ---- ranking of the chat route on a drawn pool ----
  pool,         \* items, semCands and lexCands handed to the scoring, and
                \* the results and qaRows it made of them
  \* ---- embedBatch with readBatch (lib/kb.ts) ----
  embed,        \* one call of embedBatch: pc, configuration, the batch in the
                \* store, PAGE, readBatch's from and out, requests, vectors, result
  \* ---- save*ToSupabase (lib/db.ts) ----
  save          \* one call of a save function: pc, fn, hasSupabase, rows, result

wvars == <<variant, table, onConflict, rows, chunkSize, i, stack, requests,
           status, callError, store, run, storeAfterFirst>>
cvars == <<text, size, overlap, t, start, ord, out, cpc>>

vars == <<wvars, cvars, chat, kbMatch, pool, embed, save>>
notWriter == <<cvars, chat, kbMatch, pool, embed, save>>
notChunker == <<wvars, chat, kbMatch, pool, embed, save>>
notChat == <<wvars, cvars, kbMatch, pool, embed, save>>
notMatch == <<wvars, cvars, chat, pool, embed, save>>
notPool == <<wvars, cvars, chat, kbMatch, embed, save>>
notEmbed == <<wvars, cvars, chat, kbMatch, pool, save>>
notSave == <<wvars, cvars, chat, kbMatch, pool, embed>>

\* ------------------------------------------------------------------ bounds
MaxRows == 4
MaxBatch == 3
MaxIdemRows == 3
MaxText == 4
MaxSize == 3
MaxSemHits == 2
MaxLexHits == 3
MaxMatchHits == 2
MaxPool == 14
MaxItems == 130
MaxPage == 3
MaxReadItems == 12
MaxSaveRows == 3

\* ----------------------------------------------------------------- helpers
SeqsUpTo(S, n) == UNION {[1..k -> S] : k \in 0..n}

Min(a, b) == IF a < b THEN a ELSE b
Max(a, b) == IF a > b THEN a ELSE b
CeilDiv(a, b) == (a + b - 1) \div b

\* Array.prototype.slice(from, to) for 0 <= from, on a 1-based sequence.
slice(s, from, to) == SubSeq(s, Min(from, Len(s)) + 1, Min(to, Len(s)))

Range(s) == {s[k] : k \in 1..Len(s)}

\* whether sequence part occurs in sequence whole as a contiguous run
Contains(whole, part) ==
  \E k \in 0..(Len(whole) - Len(part)) : SubSeq(whole, k + 1, k + Len(part)) = part

\* ------------------------------------------------------- the store (table)
Tables == { [name |-> "kb_items", key |-> "id"],
            [name |-> "kb_embeddings", key |-> "item_id"],
            [name |-> "kb_chunks", key |-> "id"] }

\* Messages a failed store request can carry, as sequences of words.
StoreMsgs == { <<"fetch", "failed">>, <<"permission", "denied">>, <<>> }

\* A mutant of UpsertRow: insert-only, the conflict key is not consulted.
UpsertRowInsertOnly(tbl, r) == Append(tbl, r)

\* supa.from(table).upsert([r], {onConflict, ignoreDuplicates: false}): the
\* record with r's conflict key is replaced, or r is added.
UpsertRow(tbl, r) ==
  IF \E k \in 1..Len(tbl) : tbl[k].key = r.key
  THEN [k \in 1..Len(tbl) |-> IF tbl[k].key = r.key THEN r ELSE tbl[k]]
  ELSE Append(tbl, r)

RECURSIVE Upsert(_, _)
Upsert(tbl, payload) ==
  IF payload = <<>> THEN tbl
  ELSE Upsert(UpsertRow(tbl, Head(payload)), Tail(payload))

\* ------------------------------------------------------ tryUpsert (lib/db.ts)
BackoffMs == 150

\* const msg = String(err?.message || err): an empty message is falsy and the
\* Error object itself is stringified.
ErrText(m) == IF m = <<>> THEN <<"Error">> ELSE m

TransientWords == {"ECONN", "ENOTFOUND", "ETIMEDOUT", "network", "502", "503", "504", "timeout"}

looksTransient(msg) ==
  \/ \E k \in 1..Len(msg) : msg[k] \in TransientWords
  \/ Contains(msg, <<"fetch", "failed">>)

\* A mutant of ShouldSplit: every failure of a slice of several rows is retried.
ShouldSplitAnyError(msg, rs) == Len(rs) > 1

\* A mutant of ShouldSplit: a single row is split and retried too.
ShouldSplitSingleRow(msg, rs) == looksTransient(msg)

\* if (looksTransient && rows.length > 1)
ShouldSplit(msg, rs) == looksTransient(msg) /\ Len(rs) > 1

\* new Error(`${table} upsert failed: ${msg}`)
UpsertFailedError(tb, msg) == <<tb, "upsert", "failed:">> \o msg

\* const mid = Math.ceil(rows.length / 2)
mid(rs) == CeilDiv(Len(rs), 2)

Frame(rs, attempt, pc) == [rows |-> rs, attempt |-> attempt, pc |-> pc, ms |-> 0]
Request(rs, attempt) ==
  [rows |-> rs, attempt |-> attempt, out |-> "pending", via |-> "none", msg |-> <<>>]

Top(s) == s[Len(s)]
Pop(s) == SubSeq(s, 1, Len(s) - 1)

\* The machine the recursive operators thread: the part of the state a call
\* or a return changes.
Machine == [i |-> i, stack |-> stack, requests |-> requests, status |-> status]

RECURSIVE chunkedUpsertLoopNoAwait(_)
\* A mutant of chunkedUpsertLoop: tryUpsert(chunk) is not awaited, so the
\* requests of all remaining slices are issued at once.
chunkedUpsertLoopNoAwait(m) ==
  IF m.i < Len(rows)
  THEN chunkedUpsertLoopNoAwait(
         [m EXCEPT !.stack = Append(@, Frame(slice(rows, m.i, m.i + chunkSize), 1, "upsert")),
                   !.requests = Append(@, Request(slice(rows, m.i, m.i + chunkSize), 1)),
                   !.i = @ + chunkSize])
  ELSE m

RECURSIVE tryUpsert(_, _, _), tryUpsertReturns(_), chunkedUpsertLoop(_)

\* A mutant of tryUpsertReturns: after the first half the call returns
\* without retrying the second half.
tryUpsertReturnsSkipSecond(m) ==
  IF m.stack = <<>> THEN chunkedUpsertLoop([m EXCEPT !.i = @ + chunkSize])
  ELSE tryUpsertReturns([m EXCEPT !.stack = Pop(@)])

\* tryUpsert(table, rs, onConflict, attempt) up to its first await: an empty
\* slice returns at once, otherwise the store request is issued.
tryUpsert(m, rs, attempt) ==
  IF Len(rs) = 0 THEN tryUpsertReturns(m)
  ELSE [m EXCEPT !.stack = Append(@, Frame(rs, attempt, "upsert")),
                 !.requests = Append(@, Request(rs, attempt))]

\* A tryUpsert call returned normally to its caller: the frame on top of
\* m.stack (awaiting its first or its second half), or chunkedUpsert's loop.
tryUpsertReturns(m) ==
  IF m.stack = <<>> THEN chunkedUpsertLoop([m EXCEPT !.i = @ + chunkSize])
  ELSE LET f == Top(m.stack) IN
       IF f.pc = "first"
       THEN tryUpsert([m EXCEPT !.stack[Len(m.stack)].pc = "second"],
                      slice(f.rows, mid(f.rows), Len(f.rows)), f.attempt + 1)
       ELSE tryUpsertReturns([m EXCEPT !.stack = Pop(@)])

\* for (let i = 0; i < rows.length; i += chunkSize) await tryUpsert(chunk)
chunkedUpsertLoop(m) ==
  IF m.i < Len(rows)
  THEN tryUpsert(m, slice(rows, m.i, m.i + chunkSize), 1)
  ELSE [m EXCEPT !.status = "done"]

Install(m) ==
  /\ i' = m.i
  /\ stack' = m.stack
  /\ requests' = m.requests
  /\ status' = m.status

\* chunkedUpsert(table, rows, onConflict, chunkSize) is called.
chunkedUpsert ==
  /\ status = "idle"
  /\ IF Len(rows) = 0
     THEN Install([Machine EXCEPT !.status = "done"])
     ELSE Install(chunkedUpsertLoop([Machine EXCEPT !.i = 0, !.status = "running"]))
  /\ UNCHANGED <<variant, table, onConflict, rows, chunkSize, callError, store,
                 run, storeAfterFirst>>
  /\ UNCHANGED notWriter

Pending == {k \in 1..Len(requests) : requests[k].out = "pending"}

\* The store applies a request and answers success: the awaiting tryUpsert
\* returns and its callers run on to the next store request or to the end.
UpsertSucceeds ==
  /\ status = "running"
  /\ \E k \in Pending :
       /\ store' = Upsert(store, requests[k].rows)
       /\ Install(tryUpsertReturns(
            [Machine EXCEPT !.requests[k].out = "ok", !.stack = Pop(@)]))
  /\ UNCHANGED <<variant, table, onConflict, rows, chunkSize, callError,
                 run, storeAfterFirst>>
  /\ UNCHANGED notWriter

\* The store request fails (an error value or a rejected promise) and
\* nothing is written.  catch: split and retry, or bubble up.
UpsertFails ==
  /\ status = "running"
  /\ variant = "halving"
  /\ \E k \in Pending, via \in {"error", "throw"}, m \in StoreMsgs :
       LET msg == ErrText(m)
           f == Top(stack)
           logged == [requests EXCEPT ![k].out = "fail", ![k].via = via, ![k].msg = m]
       IN IF ShouldSplit(msg, f.rows)
          THEN /\ stack' = [stack EXCEPT ![Len(stack)].pc = "sleep",
                                         ![Len(stack)].ms = BackoffMs * f.attempt]
               /\ requests' = logged
               /\ UNCHANGED <<status, callError>>
          ELSE /\ stack' = <<>>
               /\ requests' = logged
               /\ status' = "failed"
               /\ callError' = UpsertFailedError(table, msg)
  /\ UNCHANGED <<variant, table, onConflict, rows, chunkSize, i, store,
                 run, storeAfterFirst>>
  /\ UNCHANGED notWriter

\* The variant without retry: an error value is wrapped and thrown, a
\* rejected promise propagates as it is.
UpsertFailsPlain ==
  /\ status = "running"
  /\ variant = "plain"
  /\ \E k \in Pending, via \in {"error", "throw"}, m \in StoreMsgs :
       /\ requests' = [requests EXCEPT ![k].out = "fail", ![k].via = via, ![k].msg = m]
       /\ stack' = <<>>
       /\ status' = "failed"
       /\ callError' = IF via = "error" THEN <<table, "upsert", "failed:">> \o m ELSE m
  /\ UNCHANGED <<variant, table, onConflict, rows, chunkSize, i, store,
                 run, storeAfterFirst>>
  /\ UNCHANGED notWriter

\* await sleep(150 * attempt) elapses: the first half is retried.
SleepElapses ==
  /\ status = "running"
  /\ stack # <<>>
  /\ Top(stack).pc = "sleep"
  /\ LET f == Top(stack) IN
       Install(tryUpsert([Machine EXCEPT !.stack[Len(stack)].pc = "first"],
                         slice(f.rows, 0, mid(f.rows)), f.attempt + 1))
  /\ UNCHANGED <<variant, table, onConflict, rows, chunkSize, callError, store,
                 run, storeAfterFirst>>
  /\ UNCHANGED notWriter

\* The caller runs the Batch Writer a second time with the same rows.
CallAgain ==
  /\ status = "done"
  /\ run = 1
  /\ run' = 2
  /\ storeAfterFirst' = store
  /\ IF Len(rows) = 0
     THEN Install([Machine EXCEPT !.requests = <<>>])
     ELSE Install(chunkedUpsertLoop(
            [Machine EXCEPT !.i = 0, !.status = "running", !.requests = <<>>]))
  /\ UNCHANGED <<variant, table, onConflict, rows, chunkSize, callError, store>>
  /\ UNCHANGED notWriter

\* ------------------------------------------------- makeChunks (lib/chunker.ts)

Chars == {"a", "b", " ", "\n"}
IsSpace(c) == c \in {" ", "\n"}

RECURSIVE DropSpaces(_)
DropSpaces(s) ==
  IF s # <<>> /\ IsSpace(Head(s)) THEN DropSpaces(Tail(s)) ELSE s

\* s.replace(/\s+/g, " "): every maximal run of whitespace becomes one space
RECURSIVE CollapseSpaces(_)
CollapseSpaces(s) ==
  IF s = <<>> THEN <<>>
  ELSE IF IsSpace(Head(s)) THEN <<" ">> \o CollapseSpaces(DropSpaces(s))
  ELSE <<Head(s)>> \o CollapseSpaces(Tail(s))

RECURSIVE DropTrailingSpaces(_)
DropTrailingSpaces(s) ==
  IF s # <<>> /\ IsSpace(s[Len(s)])
  THEN DropTrailingSpaces(SubSeq(s, 1, Len(s) - 1)) ELSE s

\* String.prototype.trim
trim(s) == DropTrailingSpaces(DropSpaces(s))

\* function clean(s) { return (s || "").replace(/\s+/g, " ").trim(); }
clean(s) == trim(CollapseSpaces(s))

\* const step = Math.max(1, size - Math.max(0, overlap))
step == Max(1, size - Max(0, overlap))

\* A mutant of NextStart: the window advances by size, ignoring the overlap.
NextStartNoOverlap(s) == s + size

\* start += step
NextStart(s) == s + step

\* const end = Math.min(t.length, start + size)
MadeChunkEnd(tt, s) == Min(Len(tt), s + size)

\* A mutant of MadeChunk: the ordinal is the window's start offset.
MadeChunkOrdIsStart(tt, s, o) ==
  LET content == slice(tt, s, MadeChunkEnd(tt, s))
  IN [ord |-> s, content |-> content, token_count |-> CeilDiv(Len(content), 4)]

\* { ord, content: t.slice(start, end), token_count: Math.ceil(slice.length / 4) }
MadeChunk(tt, s, o) ==
  LET content == slice(tt, s, MadeChunkEnd(tt, s))
  IN [ord |-> o, content |-> content, token_count |-> CeilDiv(Len(content), 4)]

\* makeChunks(text, size, overlap) up to the loop: clean, and the early
\* return on an empty text.
makeChunks ==
  /\ cpc = "idle"
  /\ t' = clean(text)
  /\ start' = 0
  /\ ord' = 0
  /\ out' = <<>>
  /\ cpc' = IF clean(text) = <<>> THEN "returned" ELSE "loop"
  /\ UNCHANGED <<text, size, overlap>>
  /\ UNCHANGED notChunker

\* One iteration of while (start < t.length).
ChunkLoop ==
  /\ cpc = "loop"
  /\ start < Len(t)
  /\ out' = Append(out, MadeChunk(t, start, ord))
  /\ ord' = ord + 1
  /\ start' = NextStart(start)
  /\ UNCHANGED <<text, size, overlap, t, cpc>>
  /\ UNCHANGED notChunker

\* The loop condition fails: return out.
ChunkReturn ==
  /\ cpc = "loop"
  /\ ~(start < Len(t))
  /\ cpc' = "returned"
  /\ UNCHANGED <<text, size, overlap, t, start, ord, out>>
  /\ UNCHANGED notChunker

\* ------------------------------------------- chat route: data and remote calls

MIN_ANSWER_LEN == 40
MatchCount == 40
FtsLimit == 60
FetchLimit == 120
QaLimit == 12
ChunkLimit == 8

OFF_TOPIC_TERMS == {"coaching", "wellness", "resilience"}

\* kb_items as the store holds it.  An answer is kept by what the route reads
\* of it: len, its length (0 for a null answer); nlen, the length of norm(a);
\* head, the first 200 characters of norm(a); bullets, whether
\* /[•\-]\s|\n\d+\.\s/ matches norm(a); terms, the words of it that matter to
\* hasAny.  A null source is "".
KB == <<
  [id |-> 1, q |-> {"sla"}, a |-> [len |-> 41, nlen |-> 39, head |-> "A", bullets |-> FALSE, terms |-> {}], source |-> "faq.xlsx"],
  [id |-> 2, q |-> {"uptime"}, a |-> [len |-> 40, nlen |-> 40, head |-> "B", bullets |-> FALSE, terms |-> {}], source |-> "rfp.pdf"],
  [id |-> 3, q |-> {"uptime"}, a |-> [len |-> 40, nlen |-> 40, head |-> "B", bullets |-> FALSE, terms |-> {}], source |-> ""],
  [id |-> 4, q |-> {"support"}, a |-> [len |-> 320, nlen |-> 301, head |-> "C", bullets |-> TRUE, terms |-> {"wellness"}], source |-> "rfp.pdf"],
  [id |-> 5, q |-> {"pricing"}, a |-> [len |-> 0, nlen |-> 0, head |-> "", bullets |-> FALSE, terms |-> {}], source |-> "faq.xlsx"] >>

\* ids a search can return: those of KB and 6, an id the store no longer holds
Ids == {1, 2, 3, 4, 5, 6}

SubsetsUpTo(S, n) == {x \in SUBSET S : Cardinality(x) <= n}

RECURSIVE InOrder(_, _)
\* the elements of the set S of numbers, ascending from k
InOrder(S, k) ==
  IF S = {} THEN <<>>
  ELSE IF k \in S THEN <<k>> \o InOrder(S \ {k}, k + 1)
  ELSE InOrder(S, k + 1)

\* Scores of match_kb_items, in hundredths.
SemProfiles == { [id \in Ids |-> 90],
                 [id \in Ids |-> IF id = 2 THEN 70 ELSE IF id = 6 THEN 0 ELSE 90] }
\* Ranks of the full-text searches (ts_rank, scaled to integers).
LexProfiles == { [id \in Ids |-> id] }

SemResults ==
  { [k \in 1..Cardinality(S) |-> [id |-> InOrder(S, 1)[k], score |-> f[InOrder(S, 1)[k]]]] :
      S \in SubsetsUpTo(Ids \ {1}, MaxSemHits), f \in SemProfiles }

QuestionHits ==
  { [k \in 1..Cardinality(S) |-> [id |-> InOrder(S, 1)[k], rank |-> f[InOrder(S, 1)[k]]]] :
      S \in SubsetsUpTo(Ids, MaxLexHits), f \in LexProfiles }

\* A row without id, a row without rank, a negative rank.
AnswerHits == { <<>>, <<[id |-> 3, rank |-> 9]>>,
                <<[rank |-> 4], [id |-> 2], [id |-> 1, rank |-> -3]>> }

ChunkHits == { <<>>, <<[item_id |-> 2, content |-> "text"]>>,
               <<[item_id |-> 6, content |-> ""], [item_id |-> 2, content |-> "text"]>> }

Completions == {"answer", ""}

\* ------------------------------------------------- chat route: pure parts
\* norm(r.a || "").length
atextLength(a) == a.nlen

\* hasAny(`${r.q} ${r.a}`, OFF_TOPIC_TERMS)
hasAny(r) == (r.q \cup r.a.terms) \cap OFF_TOPIC_TERMS # {}

\* Number(r[f]) || 0: a missing field counts 0
NumberOr0(r, f) == IF f \in DOMAIN r THEN r[f] ELSE 0

\* !r?.id
NoId(r) == "id" \notin DOMAIN r \/ r.id = 0

\* Map.get(id) || 0 on a sequence of [id, v] in insertion order
MapGet(mp, id) ==
  LET ks == {k \in 1..Len(mp) : mp[k].id = id}
  IN IF ks = {} THEN 0 ELSE mp[CHOOSE k \in ks : \A h \in ks : k <= h].v

\* Array.from(new Set(xs)): first occurrences, in order
Dedup(xs) ==
  LET firsts == SelectSeq([k \in 1..Len(xs) |-> k],
                          LAMBDA k : \A j \in 1..(k - 1) : xs[j] # xs[k])
  IN [n \in 1..Len(firsts) |-> xs[firsts[n]]]

\* Math.max(0, ...S)
MaxOf(S) == CHOOSE x \in S \cup {0} : \A y \in S \cup {0} : y <= x

\* A mutant of lexCandsOf: the rank of the last row of an id is kept as it
\* is, without Math.max.
lexCandsOfLastWins(mp, fts) ==
  LET hits == SelectSeq(fts, LAMBDA r : ~NoId(r))
      ids == Dedup([k \in 1..Len(mp) |-> mp[k].id] \o [k \in 1..Len(hits) |-> hits[k].id])
      places(id) == {h \in 1..Len(hits) : hits[h].id = id}
      last(id) == CHOOSE k \in places(id) : \A h \in places(id) : h <= k
  IN [n \in 1..Len(ids) |->
        [id |-> ids[n],
         v |-> IF places(ids[n]) = {} THEN MapGet(mp, ids[n])
               ELSE NumberOr0(hits[last(ids[n])], "rank")]]

\* for (const r of ftsCombined) { if (!r?.id) continue;
\*   lexCands.set(r.id, Math.max(lexCands.get(r.id) || 0, Number(r.rank) || 0)) }
\* A Map keeps its keys in the order of their first insertion, and the value
\* of a key after the loop is Math.max over 0, its value before the loop and
\* the ranks of its rows.
lexCandsOf(mp, fts) ==
  LET hits == SelectSeq(fts, LAMBDA r : ~NoId(r))
      ids == Dedup([k \in 1..Len(mp) |-> mp[k].id] \o [k \in 1..Len(hits) |-> hits[k].id])
      ranks(id) == {NumberOr0(hits[k], "rank") : k \in {h \in 1..Len(hits) : hits[h].id = id}}
  IN [n \in 1..Len(ids) |->
        [id |-> ids[n], v |-> MaxOf({MapGet(mp, ids[n])} \cup ranks(ids[n]))]]

\* Array.from(new Set([...semCands.map(c => c.id), ...lexCands.keys()]))
candIdsOf(sem, lex) ==
  Dedup([k \in 1..Len(sem) |-> sem[k].id] \o [k \in 1..Len(lex) |-> lex[k].id])

\* the elements of xs that are in the set S, in order
Filter(xs, S) == SelectSeq(xs, LAMBDA x : x \in S)

\* .from("kb_items").select(...).in("id", ids).limit(120) on a table kb
FetchFrom(kb, ids) ==
  slice(Filter(kb, {r \in Range(kb) : r.id \in Range(ids)}), 0, FetchLimit)

\* supabase.from("kb_items").select(...).in("id", candIds).limit(120)
FetchItems(ids) == FetchFrom(KB, ids)

\* Math.max(0, ...lexCands.values())
maxLexOf(lex) == MaxOf({lex[k].v : k \in 1..Len(lex)})

\* new Map(semCands.map(c => [c.id, c.score])).get(id) || 0: the last entry wins
semScoreOf(sem, id) ==
  LET ks == {k \in 1..Len(sem) : sem[k].id = id}
  IN IF ks = {} THEN 0 ELSE NumberOr0(sem[CHOOSE k \in ks : \A h \in ks : h <= k], "score")

\* One element of results.  Scores are kept exact: sem in hundredths, lex as
\* the fraction lexNum / lexDen, and hybrid times 10000 * lexDen.
Scored(r, sem, lex) ==
  LET maxLex == maxLexOf(lex)
      lexDen == IF maxLex # 0 THEN maxLex ELSE 1
      lexNum == IF maxLex # 0 THEN MapGet(lex, r.id) ELSE 0
      semScore == semScoreOf(sem, r.id)
      quality == (IF atextLength(r.a) > 300 THEN 15 ELSE 0)
                 + (IF r.a.bullets THEN 10 ELSE 0)
      penalty == IF hasAny(r) THEN -25 ELSE 0
  IN [id |-> r.id, source |-> r.source, atext |-> r.a,
      semScore |-> semScore, lexNum |-> lexNum, lexDen |-> lexDen,
      quality |-> quality, penalty |-> penalty,
      hybrid |-> 65 * semScore * lexDen + 3500 * lexNum + 100 * (quality + penalty) * lexDen]

\* A mutant of PassesGate: the minimum-length gate is gone.
PassesGateAlways(r) == TRUE

\* .filter((r) => r.atext.length >= MIN_ANSWER_LEN)
PassesGate(r) == atextLength(r.atext) >= MIN_ANSWER_LEN

RECURSIVE InsertDescUnstable(_, _)
\* A mutant of InsertDesc: x is placed before the elements of equal hybrid.
InsertDescUnstable(sorted, x) ==
  IF sorted = <<>> THEN <<x>>
  ELSE IF Head(sorted).hybrid > x.hybrid
       THEN <<Head(sorted)>> \o InsertDescUnstable(Tail(sorted), x)
  ELSE <<x>> \o sorted

RECURSIVE InsertDesc(_, _)
\* x placed after every element whose hybrid is not smaller (stable)
InsertDesc(sorted, x) ==
  IF sorted = <<>> THEN <<x>>
  ELSE IF Head(sorted).hybrid >= x.hybrid THEN <<Head(sorted)>> \o InsertDesc(Tail(sorted), x)
  ELSE <<x>> \o sorted

RECURSIVE SortDesc(_)
\* .sort((a, b) => b.hybrid - a.hybrid), a stable sort
SortDesc(xs) ==
  IF xs = <<>> THEN <<>>
  ELSE InsertDesc(SortDesc(SubSeq(xs, 1, Len(xs) - 1)), xs[Len(xs)])

\* A mutant of qaRowsOf: the gate is applied after sorting and truncation.
qaRowsOfGateLast(results) ==
  LET top == slice(SortDesc(results), 0, QaLimit)
  IN Filter(top, {r \in Range(top) : PassesGate(r)})

\* results.filter(gate).sort(by hybrid, descending).slice(0, 12)
qaRowsOf(results) ==
  slice(SortDesc(Filter(results, {r \in Range(results) : PassesGate(r)})), 0, QaLimit)

\* ------------------------------------------------------ chat route: POST
NoResponse == [ok |-> FALSE, status |-> 0, error |-> "", retrievedQA |-> 0,
               retrievedCtx |-> 0, contextual |-> 0, raw |-> "", ai |-> ""]

ChatStart(env, qn) ==
  [pc |-> "start", envOk |-> env, question |-> qn, calls |-> <<>>,
   semCands |-> <<>>, qRows |-> <<>>, aRows |-> <<>>, lexCands |-> <<>>,
   candIds |-> <<>>, items |-> <<>>, results |-> <<>>, qaRows |-> <<>>,
   ranked |-> FALSE, ctxChunks |-> <<>>, chunkSource |-> "", aiDerived |-> "",
   response |-> NoResponse]

\* await of a remote call: the call is issued and the route waits for it
Await(c, name) ==
  [c EXCEPT !.pc = name, !.calls = Append(@, [name |-> name, out |-> "pending"])]

\* the awaited call has answered with outcome out
Answered(c, outcome) == [c EXCEPT !.calls[Len(c.calls)].out = outcome]

Respond(c, resp) == [c EXCEPT !.pc = "responded", !.response = resp]

\* catch (e) { return NextResponse.json({ ok: false, error }, { status: 500 }) }
Caught(c, e) == Respond(c, [NoResponse EXCEPT !.status = 500, !.error = e])

\* rawText = norm(ctxChunks[0]?.content || "")
rawTextOf(chunks) == IF chunks # <<>> THEN chunks[1].content ELSE ""

\* 7) the triple answer: NextResponse.json({ ok: true, ... }).  The message
\* is kept by its three sections: contextual is the id of the Q&A shown (0
\* for "No close Q&A match found."), raw the excerpt or its marker, ai the
\* synthesis or its marker.
Compose(c) ==
  Respond(c, [ok |-> TRUE, status |-> 200, error |-> "",
              retrievedQA |-> Len(c.qaRows),
              retrievedCtx |-> Len(c.ctxChunks),
              contextual |-> IF c.qaRows # <<>> THEN c.qaRows[1].id ELSE 0,
              raw |-> IF rawTextOf(c.ctxChunks) # "" THEN rawTextOf(c.ctxChunks)
                      ELSE "No strong raw-text match found.",
              ai |-> IF c.aiDerived # "" THEN c.aiDerived ELSE "(nothing generated)"])

\* A mutant of Blend: the completion is requested whatever the context is.
BlendAlways(c) == Await(c, "chat.completions")

\* 6) qaForBlend || ctxForBlend ? openai.chat.completions.create(...) : ""
Blend(c) ==
  IF c.qaRows # <<>> \/ c.ctxChunks # <<>>
  THEN Await(c, "chat.completions")
  ELSE Compose([c EXCEPT !.aiDerived = ""])

\* 4) results, qaRows; 5) the chunk search is issued
Rank(c) ==
  LET results == [k \in 1..Len(c.items) |-> Scored(c.items[k], c.semCands, c.lexCands)]
  IN Await([c EXCEPT !.results = results, !.qaRows = qaRowsOf(results), !.ranked = TRUE],
           "kb_chunks")

\* 2) lexCands from both lookups; 3) candIds, and the fetch if there is any
Gather(c) ==
  LET lex == lexCandsOf(<<>>, c.qRows \o c.aRows)
      ids == candIdsOf(c.semCands, lex)
      d == [c EXCEPT !.lexCands = lex, !.candIds = ids]
  IN IF ids # <<>> THEN Await(d, "kb_items") ELSE Rank(d)

\* A mutant of SemanticFailed: no try/catch around the semantic lookup.
SemanticFailedRethrow(c) == Caught(c, "semantic")

\* catch { semCands = []; } and on to the lexical lookups
SemanticFailed(c) == Await([c EXCEPT !.semCands = <<>>], "search_kb_items")

\* POST is called: assertEnv, the question, then the query embedding.
ChatPost ==
  /\ chat.pc = "start"
  /\ chat' = IF ~chat.envOk THEN Caught(chat, "Missing env")
             ELSE IF chat.question = ""
             THEN Respond(chat, [NoResponse EXCEPT !.status = 400, !.error = "Empty question"])
             ELSE Await(chat, "embeddings")
  /\ UNCHANGED notChat

\* openai.embeddings.create answers with a vector, with no vector, or throws.
EmbeddingResponds ==
  /\ chat.pc = "embeddings"
  /\ \E outcome \in {"ok", "empty", "throw"} :
       chat' = LET c == Answered(chat, outcome) IN
               CASE outcome = "ok" -> Await(c, "match_kb_items")
                 [] outcome = "empty" -> Await(c, "search_kb_items")
                 [] outcome = "throw" -> SemanticFailed(c)
  /\ UNCHANGED notChat

\* rpc("match_kb_items") answers with rows, with an error value, or throws.
MatchResponds ==
  /\ chat.pc = "match_kb_items"
  /\ \/ \E data \in SemResults :
          chat' = Await([Answered(chat, "ok") EXCEPT !.semCands = data], "search_kb_items")
     \/ chat' = Await([Answered(chat, "error") EXCEPT !.semCands = <<>>], "search_kb_items")
     \/ chat' = SemanticFailed(Answered(chat, "throw"))
  /\ UNCHANGED notChat

\* rpc("search_kb_items"): { data: qRows }; a rejected promise is not caught
\* before the route's outer catch.
SearchItemsResponds ==
  /\ chat.pc = "search_kb_items"
  /\ \/ \E data \in QuestionHits :
          chat' = Await([Answered(chat, "ok") EXCEPT !.qRows = data], "search_kb_answers")
     \/ chat' = Await([Answered(chat, "error") EXCEPT !.qRows = <<>>], "search_kb_answers")
     \/ chat' = Caught(Answered(chat, "throw"), "search_kb_items")
  /\ UNCHANGED notChat

\* rpc("search_kb_answers"): { data: aRows }, then lexCands and candIds.
SearchAnswersResponds ==
  /\ chat.pc = "search_kb_answers"
  /\ \/ \E data \in AnswerHits :
          chat' = Gather([Answered(chat, "ok") EXCEPT !.aRows = data])
     \/ chat' = Gather([Answered(chat, "error") EXCEPT !.aRows = <<>>])
     \/ chat' = Caught(Answered(chat, "throw"), "search_kb_answers")
  /\ UNCHANGED notChat

\* from("kb_items").select().in("id", candIds).limit(120): items = data || []
FetchResponds ==
  /\ chat.pc = "kb_items"
  /\ \/ chat' = Rank([Answered(chat, "ok") EXCEPT !.items = FetchItems(chat.candIds)])
     \/ chat' = Rank([Answered(chat, "error") EXCEPT !.items = <<>>])
     \/ chat' = Caught(Answered(chat, "throw"), "kb_items")
  /\ UNCHANGED notChat

\* from("kb_chunks").textSearch().limit(8): ctxChunks = chunks.data || []
ChunksResponds ==
  /\ chat.pc = "kb_chunks"
  /\ \/ \E data \in ChunkHits :
          chat' = LET c == [Answered(chat, "ok") EXCEPT !.ctxChunks = slice(data, 0, ChunkLimit)]
                  IN IF data # <<>> THEN Await(c, "kb_items.source") ELSE Blend(c)
     \/ chat' = Blend([Answered(chat, "error") EXCEPT !.ctxChunks = <<>>])
     \/ chat' = Caught(Answered(chat, "throw"), "kb_chunks")
  /\ UNCHANGED notChat

\* from("kb_items").select("id,source").in("id", ids): the first chunk's source
SourceResponds ==
  /\ chat.pc = "kb_items.source"
  /\ \/ chat' = LET id == chat.ctxChunks[1].item_id
                    hit == {r \in Range(KB) : r.id = id}
                    src == IF hit = {} THEN "kb_chunks"
                           ELSE LET r == CHOOSE r \in hit : TRUE
                                IN IF r.source # "" THEN r.source ELSE "kb_items:id"
                IN Blend([Answered(chat, "ok") EXCEPT !.chunkSource = src])
     \/ chat' = Blend([Answered(chat, "error") EXCEPT !.chunkSource = "kb_chunks"])
     \/ chat' = Caught(Answered(chat, "throw"), "kb_items.source")
  /\ UNCHANGED notChat

\* openai.chat.completions.create answers with text (or none), or throws.
CompletionResponds ==
  /\ chat.pc = "chat.completions"
  /\ \/ \E txt \in Completions :
          chat' = Compose([Answered(chat, "ok") EXCEPT !.aiDerived = txt])
     \/ chat' = Caught(Answered(chat, "throw"), "chat.completions")
  /\ UNCHANGED notChat

\* ---------------------------------------------- report route: matchFromKB
CandidateLimit == 10

\* q, the extracted question, by the word includes() looks for
Questions == {"uptime", "other"}

\* Rows of rpc("match_kb_items"): distinct ids, scores in hundredths.
MatchScores == {0, 30, 90}
MatchResults ==
  { m \in SeqsUpTo([id : {2, 3, 6}, score : MatchScores], MaxMatchHits) :
      \A a, b \in 1..Len(m) : a # b => m[a].id # m[b].id }

\* check.choices[0]?.message?.content as characters; <<>> when there is none
JudgeReplies == { <<"y", "e", "s">>, <<"Y", "e", "s", "\n">>, <<"n", "o">>,
                  <<"y", "e", "s", ".">>, <<>> }

Lower(c) == CASE c = "Y" -> "y" [] c = "E" -> "e" [] c = "S" -> "s" [] OTHER -> c
toLowerCase(str) == [k \in 1..Len(str) |-> Lower(str[k])]

\* content?.trim().toLowerCase() === "yes"
relevantOf(content) == toLowerCase(trim(content)) = <<"y", "e", "s">>

\* (r.q + r.a).toLowerCase().includes(q.toLowerCase()) ? 1 : 0.5, in hundredths
lexicalOf(r, q) == IF q \in r.q \cup r.a.terms THEN 100 ELSE 50

\* sem.find((s) => s.id === r.id)?.score || 0.5, in hundredths
semScoreOrHalf(sem, id) ==
  LET ks == {k \in 1..Len(sem) : sem[k].id = id}
      found == IF ks = {} THEN 0 ELSE sem[CHOOSE k \in ks : \A h \in ks : k <= h].score
  IN IF found # 0 THEN found ELSE 50

\* 0.6 * semScore + 0.4 * lexical, times 1000
hybridScoreOf(semScore, lexical) == 6 * semScore + 4 * lexical

NoMatch == [contextual |-> 0, top |-> <<>>]

MatchStart(q) ==
  [pc |-> "start", q |-> q, calls |-> <<>>, sem |-> <<>>, rows |-> <<>>,
   candidates |-> <<>>, checks |-> <<>>, hybrid |-> <<>>, result |-> NoMatch]

\* return { contextual, top }
MatchReturns(m, res) == [m EXCEPT !.pc = "returned", !.result = res]

\* an exception leaves matchFromKB
MatchThrows(m) == [m EXCEPT !.pc = "threw"]

\* candidates.map(async (r) => { ... await openai.chat.completions.create }):
\* every callback runs to its await, so the judge calls are issued in order
\* and are all pending together.
JudgeAll(m, cands) ==
  [m EXCEPT !.pc = "judging",
            !.candidates = cands,
            !.checks = [k \in 1..Len(cands) |-> [out |-> "pending", content |-> <<>>]],
            !.calls = @ \o [k \in 1..Len(cands) |->
                              [name |-> "chat.completions", out |-> "pending"]]]

\* One element of hybrid, once its judge has replied.
JudgedRow(m, k) ==
  LET r == m.candidates[k]
      lexical == lexicalOf(r, m.q)
      semScore == semScoreOrHalf(m.sem, r.id)
  IN [id |-> r.id, source |-> r.source, hybrid |-> hybridScoreOf(semScore, lexical),
      relevant |-> relevantOf(m.checks[k].content), sem |-> semScore, lex |-> lexical]

\* hybrid.filter((r) => r.relevant).sort((a, b) => b.hybrid - a.hybrid)
MatchFiltered(hybrid) ==
  SortDesc(Filter(hybrid, {r \in Range(hybrid) : r.relevant}))

\* Promise.all resolved: filtered, and the return
MatchFinish(m) ==
  LET hybrid == [k \in 1..Len(m.candidates) |-> JudgedRow(m, k)]
      filtered == MatchFiltered(hybrid)
  IN MatchReturns([m EXCEPT !.hybrid = hybrid],
                  [contextual |-> IF filtered # <<>> THEN filtered[1].id ELSE 0,
                   top |-> filtered])

\* matchFromKB is called: the embedding of q is requested.
matchFromKB ==
  /\ kbMatch.pc = "start"
  /\ kbMatch' = Await(kbMatch, "embeddings")
  /\ UNCHANGED notMatch

\* openai.embeddings.create answers, or throws; emb.data[0].embedding of an
\* answer without data throws as well.
ReportEmbeddingResponds ==
  /\ kbMatch.pc = "embeddings"
  /\ \/ kbMatch' = Await(Answered(kbMatch, "ok"), "match_kb_items")
     \/ \E outcome \in {"empty", "throw"} :
          kbMatch' = MatchThrows(Answered(kbMatch, outcome))
  /\ UNCHANGED notMatch

\* rpc("match_kb_items"): rows, an error value (warned), or an exception
\* (caught, logged); then the fetch by the ids of sem.
ReportMatchResponds ==
  /\ kbMatch.pc = "match_kb_items"
  /\ \/ \E data \in MatchResults :
          kbMatch' = Await([Answered(kbMatch, "ok") EXCEPT !.sem = data], "kb_items")
     \/ \E outcome \in {"error", "throw"} :
          kbMatch' = Await([Answered(kbMatch, outcome) EXCEPT !.sem = <<>>], "kb_items")
  /\ UNCHANGED notMatch

\* from("kb_items").select().in("id", ids): no rows ends the match, otherwise
\* the first 10 rows are scored and judged.
ReportFetchResponds ==
  /\ kbMatch.pc = "kb_items"
  /\ \/ LET ids == {kbMatch.sem[k].id : k \in 1..Len(kbMatch.sem)}
            fetched == Filter(KB, {r \in Range(KB) : r.id \in ids})
            m == [Answered(kbMatch, "ok") EXCEPT !.rows = fetched]
        IN kbMatch' = IF fetched = <<>> THEN MatchReturns(m, NoMatch)
                      ELSE JudgeAll(m, slice(fetched, 0, CandidateLimit))
     \/ kbMatch' = MatchReturns(Answered(kbMatch, "error"), NoMatch)
     \/ kbMatch' = MatchThrows(Answered(kbMatch, "throw"))
  /\ UNCHANGED notMatch

\* One of the pending judge calls replies or throws.  Promise.all rejects
\* with the first exception; it resolves when the last reply is in.
JudgeResponds ==
  /\ kbMatch.pc = "judging"
  /\ \E k \in 1..Len(kbMatch.checks) :
       /\ kbMatch.checks[k].out = "pending"
       /\ LET call == Len(kbMatch.calls) - Len(kbMatch.checks) + k IN
          \/ \E content \in JudgeReplies :
               LET m == [kbMatch EXCEPT !.checks[k] = [out |-> "ok", content |-> content],
                                        !.calls[call].out = "ok"]
               IN kbMatch' = IF \A h \in 1..Len(m.checks) : m.checks[h].out = "ok"
                             THEN MatchFinish(m) ELSE m
          \/ kbMatch' = MatchThrows([kbMatch EXCEPT !.checks[k].out = "throw",
                                                    !.calls[call].out = "throw"])
  /\ UNCHANGED notMatch

\* ------------------------------------- chat route: the scoring on a pool
\* An item of the pool: its id is its place in the fetch, its answer is 39
\* characters long (short) or 40.
PoolItem(id, short) ==
  [id |-> id, q |-> {},
   a |-> [len |-> IF short THEN 39 ELSE 40, nlen |-> IF short THEN 39 ELSE 40,
          head |-> "P", bullets |-> FALSE, terms |-> {}],
   source |-> ""]

\* Which places of a pool of n hold a short answer.
ShortPlaces(n) == { {}, {1} \cap (1..n), {n} \cap (1..n), (1..2) \cap (1..n),
                    {k \in 1..n : k % 2 = 1} }

\* Semantic scores by place, in hundredths: all equal, rising, falling, or
\* the short answers on top.
PoolScores(n, shorts) ==
  { [k \in 1..n |-> 90], [k \in 1..n |-> 5 * k], [k \in 1..n |-> 100 - 5 * k],
    [k \in 1..n |-> IF k \in shorts THEN 100 ELSE 50] }

\* The route after the fetch answered with n items.
Fetched(n, shorts, f) ==
  [ChatStart(TRUE, "question") EXCEPT
     !.semCands = [k \in 1..n |-> [id |-> k, score |-> f[k]]],
     !.candIds = [k \in 1..n |-> k],
     !.items = [k \in 1..n |-> PoolItem(k, k \in shorts)]]

\* 4) results and qaRows of the pool
RankPool ==
  /\ ~pool.ranked
  /\ pool' = Rank(pool)
  /\ UNCHANGED notPool

\* ------------------------------- chat route: the gathering on full lookups
\* A kb_items table large enough for three disjoint result sets of the
\* default sizes; every 50th id is not in it.  Its answers are short, so
\* that the ranking after the scoring has nothing to sort.
LargeKB ==
  SelectSeq([k \in 1..(MatchCount + 2 * FtsLimit) |-> PoolItem(k, TRUE)],
            LAMBDA r : r.id % 50 # 0)

\* How many rows a lookup returns: none, one, or as many as it is asked for.
SemSizes == {0, 1, MatchCount}
LexSizes == {0, 1, FtsLimit}

\* The route when search_kb_answers is about to answer: match_kb_items
\* returned the ids 1..nSem, search_kb_items the ids qo+1..qo+nQ, and
\* search_kb_answers returns ao+1..ao+nA.
Looked(nSem, nQ, qo, nA, ao) ==
  [ChatStart(TRUE, "question") EXCEPT
     !.pc = "search_kb_answers",
     !.semCands = [k \in 1..nSem |-> [id |-> k, score |-> 90]],
     !.qRows = [k \in 1..nQ |-> [id |-> qo + k, rank |-> k]],
     !.aRows = [k \in 1..nA |-> [id |-> ao + k, rank |-> 1]]]

\* 2) lexCands, 3) candIds and the fetch request
GatherPool ==
  /\ pool.pc = "search_kb_answers"
  /\ pool' = Gather(pool)
  /\ UNCHANGED notPool

\* The fetch answers from LargeKB; 4) the scoring
FetchPool ==
  /\ pool.pc = "kb_items"
  /\ pool' = Rank([Answered(pool, "ok") EXCEPT !.items = FetchFrom(LargeKB, pool.candIds)])
  /\ UNCHANGED notPool

\* ------------------------------------------------- embedBatch and readBatch
EmbedGroup == 64

\* kb_items of the batch in store order: item k has id k and the question
\* k; every 5th question is null (-1), every 7th is the empty text (0).
BatchItems(n) ==
  [k \in 1..n |-> [id |-> k, q |-> IF k % 5 = 0 THEN -1 ELSE IF k % 7 = 0 THEN 0 ELSE k]]

\* it.Q || "": a null question becomes the empty text
OrEmpty(Q) == IF Q = -1 THEN 0 ELSE Q

RECURSIVE chunkFrom(_, _, _)
\* for (let i = 0; i < arr.length; i += n) out.push(arr.slice(i, i + n))
chunkFrom(arr, from, n) ==
  IF from < Len(arr) THEN <<slice(arr, from, from + n)>> \o chunkFrom(arr, from + n, n)
  ELSE <<>>

\* function chunk(arr, n = 64)
chunk(arr, n) == chunkFrom(arr, 0, n)

\* The vector the embedding service returns for the input at place pos of
\* request req.
Embedding(req, pos, input) == [req |-> req, pos |-> pos, of |-> input, rounded |-> FALSE]

\* row.embedding.map(round)
round(v) == [v EXCEPT !.rounded = TRUE]

EmbedStart(key, has, n, page) ==
  [pc |-> "start", apiKey |-> key, hasSupabase |-> has, batch |-> BatchItems(n),
   PAGE |-> page, from |-> 0, out |-> <<>>, reads |-> <<>>,
   items |-> <<>>, byChunks |-> <<>>, idx |-> 0, vectors |-> <<>>,
   requests |-> <<>>, writes |-> <<>>, count |-> -1, error |-> ""]

EmbedThrows(m, e) == [m EXCEPT !.pc = "threw", !.error = e]

\* supa.from("kb_items").select().eq("batch_id", batchId).range(from, from + PAGE - 1)
ReadPage(m) ==
  [m EXCEPT !.pc = "reading",
            !.reads = Append(@, [from |-> m.from, to |-> m.from + m.PAGE - 1, got |-> -1])]

\* A mutant of KeyMissing: the credential is not looked at.
KeyMissingIgnored(m) == FALSE

\* if (!client.apiKey)
KeyMissing(m) == ~m.apiKey

\* readBatch up to its first await
readBatch(m) ==
  IF ~m.hasSupabase THEN EmbedThrows(m, "Supabase not configured")
  ELSE ReadPage([m EXCEPT !.from = 0, !.out = <<>>])

\* A mutant of EmptyBatch: the early return is gone.
EmptyBatchIgnored(items) == FALSE

\* if (!items.length)
EmptyBatch(items) == Len(items) = 0

\* client.embeddings.create({ model, input: inputsChunk }) for the next group
EmbedRequest(m) ==
  [m EXCEPT !.pc = "embedding",
            !.requests = Append(@, m.byChunks[Len(m.requests) + 1])]

\* await saveEmbeddingsToSupabase(batchId, vectors)
SaveVectors(m) == [m EXCEPT !.pc = "saving", !.writes = Append(@, m.vectors)]

\* A mutant of NextGroup: the vectors gathered so far are written before
\* the remaining groups are embedded.
NextGroupWriteFirst(m) == SaveVectors(m)

\* the for loop over byChunks: the next group's request, or the write
NextGroup(m) ==
  IF Len(m.requests) < Len(m.byChunks) THEN EmbedRequest(m) ELSE SaveVectors(m)

\* embedBatch once readBatch has returned items
ItemsRead(m, items) ==
  IF EmptyBatch(items) THEN [m EXCEPT !.pc = "returned", !.items = items, !.count = 0]
  ELSE NextGroup([m EXCEPT !.items = items,
                           !.byChunks = chunk([k \in 1..Len(items) |-> OrEmpty(items[k].Q)], EmbedGroup),
                           !.idx = 0, !.vectors = <<>>])

\* out.push({ id: r.id, Q: r.q, ... }) for every row of the page
PushRows(acc, data) == acc \o [k \in 1..Len(data) |-> [id |-> data[k].id, Q |-> data[k].q]]

\* A mutant of LastPage: a full page ends the read as well.
LastPageOrFull(data, page) == Len(data) <= page

\* if (data.length < PAGE) break
LastPage(data, page) == Len(data) < page

\* A mutant of ItemAt: the index starts again with every response.
ItemAtInGroup(m, pos) == m.items[pos]

\* const item = items[idx++] for the row at place pos of the response
ItemAt(m, pos) == m.items[m.idx + pos]

\* resp.data.forEach(row => vectors.push({ id: item.id, embedding: ... }))
PushVectors(m, data) ==
  [m EXCEPT !.vectors = @ \o [k \in 1..Len(data) |->
                                [id |-> ItemAt(m, k).id, embedding |-> round(data[k])]],
            !.idx = @ + Len(data)]

\* embedBatch is called: the client, the credential, then readBatch.
embedBatch ==
  /\ embed.pc = "start"
  /\ embed' = IF KeyMissing(embed) THEN EmbedThrows(embed, "OPENAI_API_KEY is not set")
              ELSE readBatch(embed)
  /\ UNCHANGED notEmbed

\* The store answers a page read: rows (the range of the batch asked for),
\* no data, an error value, or an exception.
ReadResponds ==
  /\ embed.pc = "reading"
  /\ LET n == Len(embed.reads)
         rd == embed.reads[n]
     IN \/ LET data == slice(embed.batch, rd.from, rd.to + 1)
               m == [embed EXCEPT !.reads[n].got = Len(data), !.out = PushRows(@, data)]
           IN embed' = IF Len(data) = 0 \/ LastPage(data, embed.PAGE)
                       THEN ItemsRead(m, m.out)
                       ELSE ReadPage([m EXCEPT !.from = @ + embed.PAGE])
        \/ embed' = EmbedThrows([embed EXCEPT !.reads[n].got = 0], "readBatch failed")
        \/ embed' = EmbedThrows([embed EXCEPT !.reads[n].got = 0], "fetch failed")
  /\ UNCHANGED notEmbed

\* The embedding service answers a request with one vector per input, in
\* input order, or the call throws.
EmbedResponds ==
  /\ embed.pc = "embedding"
  /\ LET req == Len(embed.requests)
         input == embed.requests[req]
     IN \/ embed' = NextGroup(PushVectors(embed,
                       [k \in 1..Len(input) |-> Embedding(req, k, input[k])]))
        \/ embed' = EmbedThrows(embed, "embeddings failed")
  /\ UNCHANGED notEmbed

\* saveEmbeddingsToSupabase returns, or throws what chunkedUpsert threw.
SaveVectorsResponds ==
  /\ embed.pc = "saving"
  /\ \/ embed' = [embed EXCEPT !.pc = "returned", !.count = Len(embed.items)]
     \/ embed' = EmbedThrows(embed, "kb_embeddings upsert failed")
  /\ UNCHANGED notEmbed

\* ------------------------------------------------------- save*ToSupabase
ITEM_BATCH == 200
EMB_BATCH == 100
CHUNK_BATCH == 80

\* The save functions: the table, conflict key and slice size each hands to
\* chunkedUpsert.
SaveFns ==
  { [fn |-> "saveItemsToSupabase", table |-> "kb_items", onConflict |-> "id", chunkSize |-> ITEM_BATCH],
    [fn |-> "saveEmbeddingsToSupabase", table |-> "kb_embeddings", onConflict |-> "item_id", chunkSize |-> EMB_BATCH],
    [fn |-> "saveChunksToSupabase", table |-> "kb_chunks", onConflict |-> "id", chunkSize |-> CHUNK_BATCH] }

NoResult == [ok |-> FALSE, skipped |-> "", upserted |-> 0]

SaveStart(f, has, rs) ==
  [pc |-> "start", fn |-> f, hasSupabase |-> has, rows |-> rs,
   upserts |-> <<>>, result |-> NoResult]

\* A save function is called: without a configured store it returns
\* { ok: false, skipped }, otherwise it awaits chunkedUpsert.
SaveCalled ==
  /\ save.pc = "start"
  /\ save' = IF ~save.hasSupabase
             THEN [save EXCEPT !.pc = "returned",
                               !.result = [NoResult EXCEPT !.skipped = "SUPABASE not configured"]]
             ELSE [save EXCEPT !.pc = "chunkedUpsert",
                               !.upserts = <<[table |-> save.fn.table,
                                              onConflict |-> save.fn.onConflict,
                                              chunkSize |-> save.fn.chunkSize,
                                              rows |-> save.rows]>>]
  /\ UNCHANGED notSave

\* chunkedUpsert returns: { ok: true, upserted: rows.length }
SaveUpsertReturns ==
  /\ save.pc = "chunkedUpsert"
  /\ save' = [save EXCEPT !.pc = "returned",
                          !.result = [NoResult EXCEPT !.ok = TRUE, !.upserted = Len(save.rows)]]
  /\ UNCHANGED notSave

\* chunkedUpsert throws: the save function has no catch
SaveUpsertThrows ==
  /\ save.pc = "chunkedUpsert"
  /\ save' = [save EXCEPT !.pc = "threw"]
  /\ UNCHANGED notSave

\* ------------------------------------------------- initial states and specs
\* No call of matchFromKB.
MatchIdle == kbMatch = MatchStart("")

\* No pool drawn, no call of embedBatch, no call of a save function.
PoolIdle == pool = ChatStart(TRUE, "")
EmbedIdle == embed = EmbedStart(TRUE, TRUE, 0, 1)
SaveIdle == save = SaveStart(CHOOSE f \in SaveFns : f.fn = "saveItemsToSupabase", TRUE, <<>>)

OthersIdle == MatchIdle /\ PoolIdle /\ EmbedIdle /\ SaveIdle

\* The chunker before any call, on an empty text.
ChunkerIdle ==
  /\ text = <<>>
  /\ size = 1
  /\ overlap = 0
  /\ t = <<>>
  /\ start = 0
  /\ ord = 0
  /\ out = <<>>
  /\ cpc = "idle"

\* The route before any request.
ChatIdle == chat = ChatStart(TRUE, "")

\* Rows of a call whose conflict keys are 1..n, all distinct.
DistinctRows(n) == [k \in 1..n |-> [key |-> k, val |-> "new"]]

WriterIdle ==
  /\ i = 0
  /\ stack = <<>>
  /\ requests = <<>>
  /\ status = "idle"
  /\ callError = <<>>
  /\ run = 1
  /\ storeAfterFirst = <<>>

Init ==
  /\ variant \in {"halving", "plain"}
  /\ \E tb \in Tables : table = tb.name /\ onConflict = tb.key
  /\ \E n \in 0..MaxRows : rows = DistinctRows(n)
  /\ chunkSize \in 1..MaxBatch
  /\ store \in {<<>>, <<[key |-> 1, val |-> "old"]>>}
  /\ WriterIdle
  /\ ChunkerIdle
  /\ ChatIdle
  /\ OthersIdle

Next ==
  \/ chunkedUpsert
  \/ UpsertSucceeds
  \/ UpsertFails
  \/ UpsertFailsPlain
  \/ SleepElapses
  \/ CallAgain

Spec == Init /\ [][Next]_vars

\* ----------------------------------------------- Batch Writer: second Init
\* Rows whose conflict keys may repeat and whose values differ, for a table
\* that may already hold older records.
RowSet == {[key |-> k, val |-> v] : k \in 1..2, v \in {"new", "newer"}}

InitIdem ==
  /\ variant \in {"halving", "plain"}
  /\ table = "kb_embeddings"
  /\ onConflict = "item_id"
  /\ rows \in SeqsUpTo(RowSet, MaxIdemRows)
  /\ chunkSize \in 1..2
  /\ store \in {<<>>, <<[key |-> 1, val |-> "old"]>>,
                <<[key |-> 2, val |-> "old"], [key |-> 1, val |-> "old"]>>}
  /\ WriterIdle
  /\ ChunkerIdle
  /\ ChatIdle
  /\ OthersIdle

SpecIdem == InitIdem /\ [][Next]_vars

InitChunker ==
  /\ text \in SeqsUpTo(Chars, MaxText)
  /\ size \in 1..MaxSize
  /\ overlap \in (-1)..MaxSize
  /\ t = <<>>
  /\ start = 0
  /\ ord = 0
  /\ out = <<>>
  /\ cpc = "idle"
  /\ variant = "halving"
  /\ table = "kb_chunks"
  /\ onConflict = "id"
  /\ rows = <<>>
  /\ chunkSize = 1
  /\ store = <<>>
  /\ WriterIdle
  /\ ChatIdle
  /\ OthersIdle

NextChunker == makeChunks \/ ChunkLoop \/ ChunkReturn

SpecChunker == InitChunker /\ [][NextChunker]_vars

InitChat ==
  /\ \E env \in BOOLEAN, qn \in {"", "question"} : chat = ChatStart(env, qn)
  /\ variant = "halving"
  /\ table = "kb_items"
  /\ onConflict = "id"
  /\ rows = <<>>
  /\ chunkSize = 1
  /\ store = <<>>
  /\ WriterIdle
  /\ ChunkerIdle
  /\ OthersIdle

NextChat ==
  \/ ChatPost
  \/ EmbeddingResponds
  \/ MatchResponds
  \/ SearchItemsResponds
  \/ SearchAnswersResponds
  \/ FetchResponds
  \/ ChunksResponds
  \/ SourceResponds
  \/ CompletionResponds

SpecChat == InitChat /\ [][NextChat]_vars

\* The Batch Writer with no call and an empty table.
WriterQuiet ==
  /\ variant = "halving"
  /\ table = "kb_items"
  /\ onConflict = "id"
  /\ rows = <<>>
  /\ chunkSize = 1
  /\ store = <<>>
  /\ WriterIdle

InitMatch ==
  /\ \E q \in Questions : kbMatch = MatchStart(q)
  /\ WriterQuiet /\ ChunkerIdle /\ ChatIdle
  /\ PoolIdle /\ EmbedIdle /\ SaveIdle

NextMatch ==
  \/ matchFromKB
  \/ ReportEmbeddingResponds
  \/ ReportMatchResponds
  \/ ReportFetchResponds
  \/ JudgeResponds

SpecMatch == InitMatch /\ [][NextMatch]_vars

InitRank ==
  /\ \E n \in 0..MaxPool : \E shorts \in ShortPlaces(n) : \E f \in PoolScores(n, shorts) :
       pool = Fetched(n, shorts, f)
  /\ WriterQuiet /\ ChunkerIdle /\ ChatIdle
  /\ MatchIdle /\ EmbedIdle /\ SaveIdle

NextRank == RankPool

SpecRank == InitRank /\ [][NextRank]_vars

\* The gathering of the chat route on lookups that return up to their
\* limits, with result sets that coincide, overlap or are disjoint.
InitUnion ==
  /\ \E nSem \in SemSizes, nQ \in LexSizes, nA \in LexSizes,
        qo \in {0, MatchCount}, ao \in {0, MatchCount + FtsLimit} :
       pool = Looked(nSem, nQ, qo, nA, ao)
  /\ WriterQuiet /\ ChunkerIdle /\ ChatIdle
  /\ MatchIdle /\ EmbedIdle /\ SaveIdle

NextUnion ==
  \/ GatherPool
  \/ FetchPool

SpecUnion == InitUnion /\ [][NextUnion]_vars

InitEmbed ==
  /\ \E key \in BOOLEAN, has \in BOOLEAN, n \in 0..MaxItems, page \in 1..MaxPage :
       embed = EmbedStart(key, has, n, page)
  /\ WriterQuiet /\ ChunkerIdle /\ ChatIdle
  /\ MatchIdle /\ PoolIdle /\ SaveIdle

NextEmbed ==
  \/ embedBatch
  \/ ReadResponds
  \/ EmbedResponds
  \/ SaveVectorsResponds

SpecEmbed == InitEmbed /\ [][NextEmbed]_vars

\* Smaller batches, for the paginated read.
InitRead ==
  /\ \E key \in BOOLEAN, has \in BOOLEAN, n \in 0..MaxReadItems, page \in 1..MaxPage :
       embed = EmbedStart(key, has, n, page)
  /\ WriterQuiet /\ ChunkerIdle /\ ChatIdle
  /\ MatchIdle /\ PoolIdle /\ SaveIdle

\* Every awaited call is answered in the end.
SpecEmbedLive == InitRead /\ [][NextEmbed]_vars /\ WF_vars(NextEmbed)

InitSave ==
  /\ \E f \in SaveFns, has \in BOOLEAN, rs \in SeqsUpTo(1..3, MaxSaveRows) :
       save = SaveStart(f, has, rs)
  /\ WriterQuiet /\ ChunkerIdle /\ ChatIdle
  /\ MatchIdle /\ PoolIdle /\ EmbedIdle

NextSave ==
  \/ SaveCalled
  \/ SaveUpsertReturns
  \/ SaveUpsertThrows

SpecSave == InitSave /\ [][NextSave]_vars

\* ------------------------------------------------------------ Batch Writer
\* claims

Keys(rs) == {rs[k].key : k \in 1..Len(rs)}
Done == status \in {"done", "failed"}
FailedTransient(k) ==
  requests[k].out = "fail" /\ looksTransient(ErrText(requests[k].msg))

\* Row p of the call is poisoned in this run: every request whose payload
\* held it failed with a transient error, every other request succeeded,
\* and at least one request held it.
PoisonedRun(p) ==
  /\ \E k \in 1..Len(requests) : rows[p] \in Range(requests[k].rows)
  /\ \A k \in 1..Len(requests) :
       IF rows[p] \in Range(requests[k].rows)
       THEN FailedTransient(k)
       ELSE requests[k].out = "ok"

\* C1 (Batch Writer convergence): when a call of the halving writer whose
\* rows form one slice has ended and exactly one row p was poisoned, every
\* other row of the call is in the table and the call failed with the
\* poisoned row's error.
C1_PoisonConvergence ==
  (variant = "halving" /\ run = 1 /\ Done /\ chunkSize >= Len(rows)) =>
    \A p \in 1..Len(rows) :
      PoisonedRun(p) =>
        /\ \A q \in 1..Len(rows) : q # p => rows[q] \in Range(store)
        /\ status = "failed"
        /\ Contains(callError, ErrText(requests[Len(requests)].msg))

\* C3 (halving retry): when a call has ended, every slice of n > 1 rows whose
\* request failed with a transient error was followed by a request for its
\* first ceil(n/2) rows and by a later request for its remaining rows,
\* whatever the outcome of the first half.
C3_BothHalvesRetried ==
  (variant = "halving" /\ Done) =>
    \A k \in 1..Len(requests) :
      (FailedTransient(k) /\ Len(requests[k].rows) > 1) =>
        LET rs == requests[k].rows
            n == Len(rs)
        IN \E a, b \in (k + 1)..Len(requests) :
             /\ a < b
             /\ requests[a].rows = SubSeq(rs, 1, CeilDiv(n, 2))
             /\ requests[b].rows = SubSeq(rs, CeilDiv(n, 2) + 1, n)
             /\ requests[a].rows \o requests[b].rows = rs

\* C4 (error surfacing): a request of the halving writer that failed with a
\* terminal error, or with a transient error on a single row, is the last
\* request of the call (no retry), and the call has failed with an error
\* that names the table and carries the store's message.
C4_ErrorSurfaced ==
  variant = "halving" =>
    \A k \in 1..Len(requests) :
      (requests[k].out = "fail" /\ (~FailedTransient(k) \/ Len(requests[k].rows) = 1)) =>
        /\ status = "failed"
        /\ k = Len(requests)
        /\ Contains(callError, <<table>>)
        /\ Contains(callError, ErrText(requests[k].msg))
        /\ Contains(callError, requests[k].msg)

\* C4's case: after a halving, a single row failed with a transient error.
C4_Witness ==
  /\ variant = "halving"
  /\ status = "failed"
  /\ Len(requests) >= 3
  /\ FailedTransient(Len(requests))
  /\ Len(requests[Len(requests)].rows) = 1

RECURSIVE OkRows(_)
\* the rows of the successful requests among the first k, in issue order
OkRows(k) ==
  IF k = 0 THEN <<>>
  ELSE OkRows(k - 1) \o (IF requests[k].out = "ok" THEN requests[k].rows ELSE <<>>)

Initials(k) == {j \in 1..k : requests[j].attempt = 1}

\* C5 (sequential batching): at most one store request is outstanding; the
\* j-th initial request (attempt 1) carries rows[j*b .. (j+1)*b), at most b
\* rows, and is issued only when every earlier request has completed and the
\* earlier slices are written in full; a call that ends successfully issued
\* one initial request per slice.
C5_SequentialBatching ==
  /\ Cardinality(Pending) <= 1
  /\ \A k \in 1..Len(requests) :
       requests[k].attempt = 1 =>
         LET j == Cardinality(Initials(k - 1)) IN
           /\ requests[k].rows = slice(rows, j * chunkSize, (j + 1) * chunkSize)
           /\ Len(requests[k].rows) \in 1..chunkSize
           /\ \A h \in 1..(k - 1) : requests[h].out # "pending"
           /\ OkRows(k - 1) = slice(rows, 0, j * chunkSize)
  /\ status = "done" =>
       Cardinality(Initials(Len(requests))) = CeilDiv(Len(rows), chunkSize)

\* C5's case: a call of several slices ended after a halving in between.
C5_Witness ==
  /\ status = "done"
  /\ Cardinality(Initials(Len(requests))) >= 2
  /\ \E k \in 1..Len(requests) : requests[k].attempt >= 2
  /\ requests[Len(requests)].attempt = 1

\* the value the table must hold for key: that of the last row carrying it
LastVal(key) ==
  LET ks == {k \in 1..Len(rows) : rows[k].key = key}
  IN rows[CHOOSE k \in ks : \A h \in ks : h <= k].val

DropLast(s, n) == SubSeq(s, 1, Len(s) - n)

RECURSIVE JoinWithoutOverlap(_, _)
\* the chunks' contents joined, the last n characters of each non-final
\* chunk removed
JoinWithoutOverlap(chunks, n) ==
  IF chunks = <<>> THEN <<>>
  ELSE IF Len(chunks) = 1 THEN chunks[1].content
  ELSE DropLast(chunks[1].content, n) \o JoinWithoutOverlap(Tail(chunks), n)

\* C2 (chunk reconstruction): for 0 <= overlap < size, the chunks makeChunks
\* returned, joined after removing the last overlap characters of each
\* non-final chunk, are the normalized text.
C2_Reconstruction ==
  (cpc = "returned" /\ 0 <= overlap /\ overlap < size) =>
    JoinWithoutOverlap(out, overlap) = clean(text)

\* -------------------------------------------------------- chat route claims
CallsWhere(names, outs) ==
  {k \in 1..Len(chat.calls) : chat.calls[k].name \in names /\ chat.calls[k].out \in outs}

Failures == {"error", "throw"}
SemanticSearchFailed == CallsWhere({"embeddings", "match_kb_items"}, Failures) # {}
LexIds == {chat.lexCands[k].id : k \in 1..Len(chat.lexCands)}
QaIds == {chat.qaRows[k].id : k \in 1..Len(chat.qaRows)}

\* C7 as the spec states it: when the semantic search failed and the lexical
\* search returned 3 hits, the route answers successfully with a non-empty
\* ranked list built from the lexical candidates only.
C7_NonEmptyFromLexical ==
  (chat.pc = "responded" /\ SemanticSearchFailed /\ Cardinality(LexIds) = 3) =>
    /\ chat.response.ok
    /\ chat.response.retrievedQA > 0
    /\ QaIds \subseteq LexIds

\* C7 (semantic degradation), amended: a failed embedding call or similarity
\* search leaves the semantic candidates empty and the route goes on to the
\* lexical lookups; the ranked list is then built from lexical candidates
\* only, and with 3 lexical hits it is non-empty exactly when the item fetch
\* succeeded and one of the hits has a normalized answer of at least 40
\* characters.
C7_SemanticDegrades ==
  SemanticSearchFailed =>
    /\ chat.semCands = <<>>
    /\ CallsWhere({"search_kb_items"}, {"pending", "ok", "error", "throw"}) # {}
    /\ chat.ranked =>
         /\ QaIds \subseteq LexIds
         /\ Cardinality(LexIds) = 3 =>
              (chat.qaRows # <<>> <=>
                 /\ CallsWhere({"kb_items"}, {"ok"}) # {}
                 /\ \E r \in Range(KB) : r.id \in LexIds /\ r.a.nlen >= 40)

\* C7's case: the semantic search failed, the lexical search returned 3 hits
\* and the route answered with a ranked list.
C7_Witness ==
  /\ chat.pc = "responded"
  /\ chat.response.ok
  /\ SemanticSearchFailed
  /\ Cardinality(LexIds) = 3
  /\ chat.response.retrievedQA >= 2

\* C8 (lexical degradation): a full-text lookup that failed, by an error
\* value or by an exception, left its rows empty and the route went on to a
\* further call.
C8_LexicalDegrades ==
  \A k \in CallsWhere({"search_kb_items", "search_kb_answers"}, Failures) :
    /\ k < Len(chat.calls)
    /\ chat.calls[k].name = "search_kb_items" => chat.qRows = <<>>
    /\ chat.calls[k].name = "search_kb_answers" => chat.aRows = <<>>

\* C9 (no hard retrieval errors), stated for the requests in which the
\* configuration is valid, the question is not empty and no store call
\* raises: whatever fails, the route answers ok.
C9_NoHardErrors ==
  ( /\ chat.pc = "responded"
    /\ chat.envOk
    /\ chat.question # ""
    /\ CallsWhere({"match_kb_items", "search_kb_items", "search_kb_answers",
                   "kb_items", "kb_chunks", "kb_items.source"}, {"throw"}) = {} )
  => chat.response.ok /\ chat.response.status = 200

\* C10 (near-duplicate suppression): no two rows of the ranked list have
\* answers with the same first 200 characters.
C10_NoNearDuplicates ==
  chat.ranked =>
    \A a, b \in 1..Len(chat.qaRows) :
      a # b => chat.qaRows[a].atext.head # chat.qaRows[b].atext.head

\* ------------------------------------------------------ matchFromKB claims
\* The judge's reply for candidate k is no verdict: the call threw, or the
\* reply is neither yes nor no.
NoVerdict(k) ==
  \/ kbMatch.checks[k].out = "throw"
  \/ /\ kbMatch.checks[k].out = "ok"
     /\ toLowerCase(trim(kbMatch.checks[k].content)) \notin {<<"y", "e", "s">>, <<"n", "o">>}

SeqIds(rs) == [k \in 1..Len(rs) |-> rs[k].id]

\* C11 (fail-open relevance judge): when a judge call threw or its reply is
\* no verdict, matchFromKB does not fail and returns every candidate, ranked
\* and unfiltered.
C11_JudgeFailOpen ==
  (\E k \in 1..Len(kbMatch.checks) : NoVerdict(k)) =>
    /\ kbMatch.pc # "threw"
    /\ kbMatch.pc = "returned" =>
         /\ Range(SeqIds(kbMatch.result.top)) = Range(SeqIds(kbMatch.candidates))
         /\ Len(kbMatch.result.top) = Len(kbMatch.candidates)

\* The score the store returned for id: the row of sem, or of semCands.
Returned(sem, id) == {sem[k].score : k \in {h \in 1..Len(sem) : sem[h].id = id}}

\* matchFromKB: of two scored candidates, the larger returned semantic score
\* at equal lexical score, or the larger lexical score at equal semantic
\* score, has the larger hybrid score.
ReportMonotone ==
  \A a, b \in Range(kbMatch.hybrid) :
    /\ (a.lex = b.lex /\ \E x \in Returned(kbMatch.sem, a.id) :
                           \E y \in Returned(kbMatch.sem, b.id) : x > y)
         => a.hybrid > b.hybrid
    /\ (a.sem = b.sem /\ a.lex > b.lex) => a.hybrid > b.hybrid

\* The chat route: the same, at equal quality and penalty.
ChatMonotone ==
  \A a, b \in Range(chat.results) \cup Range(pool.results) :
    (a.quality = b.quality /\ a.penalty = b.penalty /\ a.lexDen = b.lexDen) =>
      /\ (a.lexNum = b.lexNum /\ a.semScore > b.semScore) => a.hybrid > b.hybrid
      /\ (a.semScore = b.semScore /\ a.lexNum > b.lexNum) => a.hybrid > b.hybrid

\* C13 (hybrid scoring monotonicity): in the chat route and in matchFromKB, at
\* equal lexical score and adjustments a strictly larger semantic score
\* returned by the store gives a strictly larger hybrid score, and the same
\* for the lexical score at equal semantic score.
C13_HybridMonotone == ChatMonotone /\ ReportMonotone

\* ------------------------------------------------- ranking claims (chat)
\* The places of c.items whose normalized answer has at least 40 characters.
Passing(c) == {k \in 1..Len(c.items) : c.items[k].a.nlen >= 40}

\* The ranked list of c holds no answer under 40 characters; the gate-passing
\* candidates alone fill its 12 places; and a gate-passing candidate is
\* missing only when 12 others, none scored lower, are in the list.
GateHolds(c) ==
  c.ranked =>
    /\ \A r \in Range(c.qaRows) : r.atext.nlen >= 40
    /\ Len(c.qaRows) = Min(12, Cardinality(Passing(c)))
    /\ \A k \in Passing(c) :
         (\A r \in Range(c.qaRows) : r.id # c.items[k].id) =>
           /\ Len(c.qaRows) = 12
           /\ \A r \in Range(c.qaRows) : r.hybrid >= c.results[k].hybrid

\* C12 (minimum-answer-length gate): a fetched candidate is in the ranked
\* list only if its normalized answer has at least 40 characters, whatever
\* its hybrid score; an answer of 40 characters is not excluded by the gate;
\* the gate comes before sorting and truncation.
C12_MinAnswerLength == GateHolds(pool) /\ GateHolds(chat)

\* C12's case: more than 12 candidates pass the gate, an answer of 39
\* characters has the highest hybrid score of the pool, and the list is
\* full of answers of 40 characters.
C12_Witness ==
  /\ pool.ranked
  /\ Cardinality(Passing(pool)) > 12
  /\ \E k \in 1..Len(pool.items) :
       /\ pool.items[k].a.nlen = 39
       /\ \A h \in Passing(pool) : pool.results[k].hybrid > pool.results[h].hybrid
  /\ Len(pool.qaRows) = 12
  /\ \A r \in Range(pool.qaRows) : r.atext.nlen = 40

\* The place of the item id in the fetch of c.
PlaceOf(c, id) == CHOOSE k \in 1..Len(c.items) : c.items[k].id = id

\* The ranked list of c is in non-increasing order of hybrid score, and rows
\* of equal hybrid score are in the order of the fetch.
RankOrder(c) ==
  c.ranked =>
    \A a, b \in 1..Len(c.qaRows) :
      a < b =>
        /\ c.qaRows[a].hybrid >= c.qaRows[b].hybrid
        /\ c.qaRows[a].hybrid = c.qaRows[b].hybrid =>
             PlaceOf(c, c.qaRows[a].id) < PlaceOf(c, c.qaRows[b].id)

\* The contextual answer of a triple answer is the first row of the ranked
\* list, a gate-passing candidate no other gate-passing candidate outscores;
\* there is none when the list is empty.
ContextualIsTop ==
  (chat.pc = "responded" /\ chat.response.ok) =>
    IF chat.qaRows = <<>> THEN chat.response.contextual = 0
    ELSE /\ chat.response.contextual = chat.qaRows[1].id
         /\ PlaceOf(chat, chat.qaRows[1].id) \in Passing(chat)
         /\ \A k \in Passing(chat) : chat.qaRows[1].hybrid >= chat.results[k].hybrid

\* C14 (ranking order): the ranked list is ordered by non-increasing hybrid
\* score, equal scores keep the order of the fetch, and the contextual answer
\* is the first row of the list, or none.
C14_RankingOrder == RankOrder(chat) /\ RankOrder(pool) /\ ContextualIsTop

\* C14's case: the route answered with a ranked list in which two rows have
\* the same hybrid score, the first of them the contextual answer.
C14_Witness ==
  /\ chat.pc = "responded"
  /\ chat.response.ok
  /\ Len(chat.qaRows) >= 2
  /\ chat.qaRows[1].hybrid = chat.qaRows[2].hybrid
  /\ chat.response.contextual = chat.qaRows[1].id

\* ------------------------------------------ embedBatch and readBatch claims
\* readBatch has returned its items to embedBatch.
ReadReturned ==
  \/ embed.pc \in {"embedding", "saving", "returned"}
  \/ embed.pc = "threw" /\ embed.error \in {"embeddings failed", "kb_embeddings upsert failed"}

\* The group and the place in it of item n, for groups of 64.
GroupOf(n) == ((n - 1) \div 64) + 1
PlaceInGroup(n) == ((n - 1) % 64) + 1

\* C15 (embedding order mapping): the requests are the consecutive groups of
\* at most 64 question texts; the vector kept under items[n].id is the one the
\* service returned for the question of items[n], in every group; and the
\* vectors handed to the write are as many as the count returned.
C15_EmbeddingOrder ==
  /\ \A g \in 1..Len(embed.requests) :
       /\ Len(embed.requests[g]) = Min(64, Len(embed.items) - 64 * (g - 1))
       /\ \A p \in 1..Len(embed.requests[g]) :
            embed.requests[g][p] = OrEmpty(embed.items[64 * (g - 1) + p].Q)
  /\ \A n \in 1..Len(embed.vectors) :
       /\ embed.vectors[n].id = embed.items[n].id
       /\ embed.vectors[n].embedding =
            [req |-> GroupOf(n), pos |-> PlaceInGroup(n),
             of |-> OrEmpty(embed.items[n].Q), rounded |-> TRUE]
  /\ \A w \in 1..Len(embed.writes) :
       /\ Len(embed.writes[w]) = Len(embed.items)
       /\ embed.writes[w] = embed.vectors
  /\ (embed.pc = "returned" /\ embed.count > 0) =>
       /\ Len(embed.writes) = 1
       /\ embed.count = Len(embed.writes[1])

\* C15's case: a batch of more than two groups, null questions among them,
\* embedded and written.
C15_Witness ==
  /\ embed.pc = "returned"
  /\ Len(embed.requests) = 3
  /\ embed.count = Len(embed.vectors)
  /\ embed.count > 128
  /\ embed.items[65].Q = -1

\* The reads asked for the ranges [0, P-1], [P, 2P-1], ... in order, each but
\* the last answered with a full page; once readBatch has returned, the last
\* page was empty or short and the items are the batch, each once, in store
\* order.
ReadComplete ==
  LET P == embed.PAGE
      n == Len(embed.batch)
  IN /\ \A k \in 1..Len(embed.reads) :
          /\ embed.reads[k].from = (k - 1) * P
          /\ embed.reads[k].to = k * P - 1
          /\ k < Len(embed.reads) => embed.reads[k].got = P
     /\ ReadReturned =>
          /\ embed.reads[Len(embed.reads)].got < P
          /\ Len(embed.reads) = (n \div P) + 1
          /\ Len(embed.items) = n
          /\ \A k \in 1..n : /\ embed.items[k].id = embed.batch[k].id
                             /\ embed.items[k].Q = embed.batch[k].q

\* C16 (paginated read completeness): for a store that serves the ranges of
\* the batch as it holds it, readBatch asks for consecutive pages, stops
\* after the first empty or short page, returns every item once in store
\* order, and comes to an end.
C16_ReadCompleteness == []ReadComplete /\ <>(embed.pc \notin {"start", "reading"})

\* C16's case: a batch that is an exact multiple of the page size, read in
\* full pages and one empty page.
C16_Witness ==
  /\ ReadReturned
  /\ embed.PAGE = 3
  /\ Len(embed.batch) = 12
  /\ Len(embed.reads) = 5
  /\ embed.reads[5].got = 0
  /\ Len(embed.items) = 12

\* C17 (empty batch): when readBatch returns no item, embedBatch returns the
\* count 0 without error, with no embedding request and no write.
C17_EmptyBatch ==
  (embed.pc \notin {"start", "reading"} /\ embed.error = "" /\ embed.items = <<>>) =>
    /\ embed.pc = "returned"
    /\ embed.count = 0
    /\ embed.requests = <<>>
    /\ embed.writes = <<>>

\* C17's case: the one page read was empty and embedBatch returned 0.
C17_Witness ==
  /\ embed.pc = "returned"
  /\ embed.batch = <<>>
  /\ Len(embed.reads) = 1
  /\ embed.count = 0

\* C18 (embedding configuration error): without a credential embedBatch fails
\* with the configuration error, having issued no store read, no embedding
\* request and no write, and does nothing more.
C18_EmbedConfigError ==
  (~embed.apiKey /\ embed.pc # "start") =>
    /\ embed.pc = "threw"
    /\ embed.error = "OPENAI_API_KEY is not set"
    /\ embed.reads = <<>>
    /\ embed.requests = <<>>
    /\ embed.writes = <<>>

\* C18's case: no credential, a configured store holding a batch, and the
\* call has failed.
C18_Witness ==
  /\ ~embed.apiKey
  /\ embed.hasSupabase
  /\ Len(embed.batch) > 0
  /\ embed.pc = "threw"

\* ------------------------------------------------- save*ToSupabase claims
\* C19 (store-write configuration errors propagate): when the store is not
\* configured, a called save function does not return: it ends with an
\* error, and no store request is issued.
C19_SaveConfigError ==
  (~save.hasSupabase /\ save.pc # "start") =>
    /\ save.pc = "threw"
    /\ save.upserts = <<>>

\* ---------------------------------------------------- makeChunks: one chunk
\* C20 (single-chunk ingestion): a text whose normalized form is not empty
\* and no longer than size yields exactly one chunk: the normalized text,
\* ordinal 0, token estimate ceil(length / 4); a text whose normalized form
\* is empty yields no chunk.
C20_SingleChunk ==
  cpc = "returned" =>
    /\ t = clean(text)
    /\ t = <<>> => out = <<>>
    /\ (t # <<>> /\ Len(t) <= size) =>
         out = <<[ord |-> 0, content |-> t, token_count |-> CeilDiv(Len(t), 4)]>>

\* ------------------------------------------------- makeChunks: the windows
\* C21 (chunk ordinals): the chunks of one makeChunks call carry the
\* ordinals 0, 1, 2, ... in the order they were produced: the k-th chunk
\* (counting from 0) has ordinal k, and the next ordinal is the number of
\* chunks made so far.
C21_ChunkOrdinals ==
  /\ \A k \in 1..Len(out) : out[k].ord = k - 1
  /\ cpc # "idle" => ord = Len(out)

\* makeChunks returned several chunks, made with a step above one.
C21_Witness ==
  /\ cpc = "returned"
  /\ Len(out) >= 2
  /\ step >= 2

\* The window of the k-th chunk (k from 1): t[(k-1)*step, min(L, (k-1)*step + size)).
WindowOf(k) == slice(t, (k - 1) * step, Min(Len(t), ((k - 1) * step) + size))

\* Every chunk made so far is its window; it is not empty and not longer
\* than size, and a chunk shorter than size ends where the text ends; a
\* returned call made exactly ceil(L / step) chunks.
WindowsOK ==
  /\ \A k \in 1..Len(out) :
       /\ out[k].content = WindowOf(k)
       /\ Len(out[k].content) >= 1
       /\ Len(out[k].content) <= size
       /\ Len(out[k].content) < size => ((k - 1) * step) + size >= Len(t)
  /\ cpc # "idle" => Len(out) <= CeilDiv(Len(t), step)
  /\ cpc = "returned" => Len(out) = CeilDiv(Len(t), step)

\* A step of the loop moves start forward, by step, or leaves the loop.
LoopAdvances ==
  cpc = "loop" => (cpc' = "returned" \/ (start' = start + step /\ start' > start))

\* C25 (chunk windows): with step = max(1, size - max(0, overlap)) and L the
\* length of the normalized text, makeChunks terminates (each iteration moves
\* start forward by step >= 1, and start stays below L inside the loop) and
\* returns exactly ceil(L / step) chunks; the k-th (from 0) is
\* t[k*step, min(L, k*step + size)), never empty, never longer than size, and
\* shorter than size only when its window reaches the end of the text.
C25_ChunkWindows == [] WindowsOK /\ [][LoopAdvances]_vars

\* A returned call with an overlap in use, three chunks or more, and two of
\* them clipped by the end of the text.
C25_Witness ==
  /\ cpc = "returned"
  /\ overlap >= 1
  /\ step < size
  /\ Len(out) >= 3
  /\ Len(out[Len(out)].content) < size
  /\ Len(out[Len(out) - 1].content) < size

\* ------------------------------------------------ chat route: empty context
\* The chunk lookup has answered (with rows or with an error value).
ChunksAnswered == CallsWhere({"kb_chunks"}, {"ok", "error"}) # {}

\* C22 (empty context synthesis): once the ranked Q&A list and the chunk
\* list are both known to be empty, the route issues no completion request
\* and has answered successfully (status 200, no error) with the three
\* markers: no Q&A match, no raw-text match, nothing generated.
C22_EmptyContext ==
  (chat.ranked /\ ChunksAnswered /\ chat.qaRows = <<>> /\ chat.ctxChunks = <<>>) =>
    /\ CallsWhere({"chat.completions"}, {"pending", "ok", "throw"}) = {}
    /\ chat.pc = "responded"
    /\ chat.response.ok
    /\ chat.response.status = 200
    /\ chat.response.error = ""
    /\ chat.response.retrievedQA = 0
    /\ chat.response.retrievedCtx = 0
    /\ chat.response.contextual = 0
    /\ chat.response.raw = "No strong raw-text match found."
    /\ chat.response.ai = "(nothing generated)"

\* The lexical lookups found items and the fetch returned them, none passed
\* the gate, the chunk lookup found nothing, and the route has answered.
C22_Witness ==
  /\ chat.pc = "responded"
  /\ chat.ranked
  /\ ChunksAnswered
  /\ chat.items # <<>>
  /\ chat.qaRows = <<>>
  /\ chat.ctxChunks = <<>>
  /\ chat.response.ai = "(nothing generated)"

\* ------------------------------------------- Batch Writer: retries and ends
\* C23 (exactly-once convergence on success): when chunkedUpsert has
\* returned normally, no request is outstanding, the payloads of the
\* successful store requests, concatenated in issue order, are the input
\* rows, and every input row is in the payload of exactly one successful
\* request, whatever failures and halvings came in between.
C23_ExactlyOnce ==
  status = "done" =>
    /\ Pending = {}
    /\ OkRows(Len(requests)) = rows
    /\ \A p \in 1..Len(rows) :
         Cardinality({k \in 1..Len(requests) :
                        /\ requests[k].out = "ok"
                        /\ rows[p] \in Range(requests[k].rows)}) = 1

\* C23's case: a first call of three rows or more returned after two
\* failed requests, each followed by its halves.
C23_Witness ==
  /\ status = "done"
  /\ run = 1
  /\ Len(rows) >= 3
  /\ Cardinality({k \in 1..Len(requests) : requests[k].out = "fail"}) >= 2

RECURSIVE CeilLog2(_)
\* ceil(log2(n)) for n >= 1
CeilLog2(n) == IF n <= 1 THEN 0 ELSE 1 + CeilLog2(CeilDiv(n, 2))

\* the initial request (attempt 1) of the slice request k belongs to
SliceStart(k) ==
  CHOOSE j \in Initials(k) : \A h \in Initials(k) : h <= j

\* the request whose failure led to request k (attempt > 1): the latest
\* earlier request of the attempt before
ParentOf(k) ==
  LET ps == {j \in 1..(k - 1) : requests[j].attempt = requests[k].attempt - 1}
  IN CHOOSE j \in ps : \A h \in ps : h <= j

\* Every request carries a non-empty slice; a retry carries strictly fewer
\* rows than the failed request it retries, which had several rows and a
\* transient error; for an initial slice of n rows the recursion is at most
\* ceil(log2 n) deep and at most 2n - 1 requests are issued.
RetryBound ==
  /\ \A k \in 1..Len(requests) :
       LET n == Len(requests[SliceStart(k)].rows) IN
         /\ Len(requests[k].rows) >= 1
         /\ requests[k].attempt - 1 <= CeilLog2(n)
         /\ (k - SliceStart(k)) + 1 <= (2 * n) - 1
         /\ requests[k].attempt > 1 =>
              /\ requests[ParentOf(k)].out = "fail"
              /\ FailedTransient(ParentOf(k))
              /\ Len(requests[ParentOf(k)].rows) > 1
              /\ Len(requests[k].rows) < Len(requests[ParentOf(k)].rows)
  /\ stack # <<>> => Len(stack) <= 1 + CeilLog2(Len(stack[1].rows))

\* C24 (retry termination and bound): under every pattern of store failures
\* a call of the Batch Writer ends (it returns or fails); each retry is on a
\* strictly smaller non-empty slice, the recursion for a slice of n rows is
\* at most ceil(log2 n) deep, and at most 2n - 1 store requests are issued
\* for it.
C24_RetryTerminates == [] RetryBound /\ <>[] (status \in {"done", "failed"})

\* C24's case: a slice of three rows took 2*3 - 1 requests, two levels deep.
C24_Witness ==
  /\ status = "done"
  /\ chunkSize >= 3
  /\ Len(rows) = 3
  /\ Len(requests) = 5
  /\ \E k \in 1..Len(requests) : requests[k].attempt = 3

\* C29 (fail-fast prefix on failure): when a call has failed, its last
\* request is the failed one (none is outstanding, none was issued after
\* it), the rows written by the call are a prefix of the input rows, and
\* the failed request's slice starts right after that prefix: every row
\* before it is in the table, no row of it or after it was written.
C29_FailFastPrefix ==
  status = "failed" =>
    LET last == Len(requests)
        p == Len(OkRows(last))
    IN /\ requests[last].out = "fail"
       /\ Pending = {}
       /\ OkRows(last) = SubSeq(rows, 1, p)
       /\ requests[last].rows = SubSeq(rows, p + 1, p + Len(requests[last].rows))
       /\ \A q \in 1..p : rows[q] \in Range(store)
       /\ run = 1 => \A q \in (p + 1)..Len(rows) : rows[q] \notin Range(store)

\* C29's case: a call failed on the second half of a halved slice, after
\* rows were written, with rows left unwritten behind the failed slice.
C29_Witness ==
  /\ status = "failed"
  /\ run = 1
  /\ requests[Len(requests)].attempt >= 2
  /\ Len(OkRows(Len(requests))) >= 1
  /\ Len(OkRows(Len(requests))) + Len(requests[Len(requests)].rows) < Len(rows)

\* The Batch Writer with every enabled step eventually taken: a pending
\* store request is answered, a backoff elapses.
SpecWriterLive == Init /\ [][Next]_vars /\ WF_vars(Next)

\* ------------------------------------------- chat route: lexical scores
\* the rows both full-text lookups returned, questions first
FtsRows == chat.qRows \o chat.aRows

\* the places of the rows that carry this id
HitsOf(id) == {k \in 1..Len(FtsRows) : ~NoId(FtsRows[k]) /\ FtsRows[k].id = id}

\* the raw ranks the lookups returned for this id (a row may carry none)
SeenRanks(id) ==
  {FtsRows[k].rank : k \in {h \in HitsOf(id) : "rank" \in DOMAIN FtsRows[h]}}

\* the greatest element of a non-empty set of integers
Greatest(S) == CHOOSE x \in S : \A y \in S : y <= x

\* The lexical candidates are the ids the lookups returned, and every
\* result's normalized lexical score lexNum / lexDen is its rank over the
\* greatest rank of all candidates when that is positive, lies in [0,1], is
\* 0 for an item without lexical hit, and is 0 for every item when no rank
\* is positive.
LexScoresOK ==
  LET top == Greatest({0} \cup {chat.lexCands[k].v : k \in 1..Len(chat.lexCands)})
  IN /\ \A k \in 1..Len(chat.lexCands) : HitsOf(chat.lexCands[k].id) # {}
     /\ \A k \in 1..Len(FtsRows) : ~NoId(FtsRows[k]) => FtsRows[k].id \in LexIds
     /\ \A k \in 1..Len(chat.results) :
          LET r == chat.results[k] IN
            /\ r.lexDen > 0
            /\ 0 <= r.lexNum /\ r.lexNum <= r.lexDen
            /\ top > 0 => r.lexDen = top /\ r.lexNum = MapGet(chat.lexCands, r.id)
            /\ top <= 0 => r.lexNum = 0
            /\ r.id \notin LexIds => r.lexNum = 0

\* C27 as the spec states it: the lexical rank of a candidate is the
\* greatest raw rank the lookups returned for its id (0 when no row of it
\* carried a rank), and the normalized scores are as in LexScoresOK.
C27_RankIsMaxSeen ==
  chat.ranked =>
    /\ \A k \in 1..Len(chat.lexCands) :
         LET e == chat.lexCands[k] IN
           e.v = IF SeenRanks(e.id) = {} THEN 0 ELSE Greatest(SeenRanks(e.id))
    /\ LexScoresOK

\* C27 (lexical normalization bound), amended: the lexical rank of a
\* candidate is the greatest of 0 and the raw ranks the lookups returned for
\* its id, so a negative or missing rank counts 0; the normalized score of
\* every result is that rank over the greatest rank of all candidates, in
\* [0,1], 0 without lexical hit, and 0 for all when no rank is positive.
C27_LexicalNormalized ==
  chat.ranked =>
    /\ \A k \in 1..Len(chat.lexCands) :
         LET e == chat.lexCands[k] IN e.v = Greatest({0} \cup SeenRanks(e.id))
    /\ LexScoresOK

\* C27's case: an item whose only rank is negative was fetched and scored
\* next to an item with a positive rank, seen twice with different ranks.
C27_Witness ==
  /\ chat.ranked
  /\ \E k \in 1..Len(chat.results) :
       /\ SeenRanks(chat.results[k].id) = {-3}
       /\ chat.results[k].lexNum = 0
  /\ \E k \in 1..Len(chat.results) :
       /\ chat.results[k].lexNum > 0
       /\ chat.results[k].lexNum < chat.results[k].lexDen
  /\ \E k \in 1..Len(chat.lexCands) : Cardinality(HitsOf(chat.lexCands[k].id)) >= 2

\* ------------------------------------------ chat route: the candidate pool
\* the ids the semantic lookup and the two lexical lookups returned
LookupIds ==
  {pool.semCands[k].id : k \in 1..Len(pool.semCands)}
    \cup {pool.qRows[k].id : k \in 1..Len(pool.qRows)}
    \cup {pool.aRows[k].id : k \in 1..Len(pool.aRows)}

ScoredIds == {pool.results[k].id : k \in 1..Len(pool.results)}

\* C26 (candidate union): once the route has scored, every id of the
\* semantic result set or of either lexical result set that is in kb_items
\* has been scored as a candidate, after at most one fetch, for result sets
\* of up to the default sizes (40 semantic, 60 + 60 lexical).
C26_CandidateUnion ==
  pool.ranked =>
    /\ \A id \in LookupIds :
         (\E k \in 1..Len(LargeKB) : LargeKB[k].id = id) => id \in ScoredIds
    /\ Len(SelectSeq(pool.calls, LAMBDA c : c.name = "kb_items")) <= 1

\* ------------------------------------------- matchFromKB: concurrent calls
\* C28 (sequential remote calls within a run): at most one remote call of a
\* matchFromKB run is outstanding at any time.
C28_OneOutstanding ==
  Cardinality({k \in 1..Len(kbMatch.calls) : kbMatch.calls[k].out = "pending"}) <= 1

\* --------------------------------------------- embedBatch: embed, then write
\* C30 (embed-then-write ordering): embedBatch has started its write only
\* when every group of the batch was requested and answered, with one vector
\* per item, and it writes once; when an embedding request has failed, the
\* call has ended with that error, has not returned a count, and has
\* written nothing.
C30_EmbedThenWrite ==
  /\ embed.writes # <<>> =>
       /\ Len(embed.requests) = Len(embed.byChunks)
       /\ Len(embed.vectors) = Len(embed.items)
       /\ embed.writes = <<embed.vectors>>
  /\ embed.error = "embeddings failed" =>
       /\ embed.pc = "threw"
       /\ embed.count = -1
       /\ embed.writes = <<>>

\* C30's case: the third embedding request failed after two groups of 64
\* were embedded.
C30_Witness ==
  /\ embed.error = "embeddings failed"
  /\ Len(embed.requests) = 3
  /\ Len(embed.vectors) = 2 * EmbedGroup
  /\ embed.writes = <<>>

====
